---- MODULE Spec2Model ----
(***************************************************************************)
(* A model of chem/finetune.py: the fine-tuning driver main(), the         *)
(* training step train(), the evaluation step eval() and the two pieces of *)
(* arithmetic they contain, the masked loss and the masked mean AUC.       *)
(*                                                                         *)
(* Numbers.  Losses are in thousandths (fixed point); a quotient is kept   *)
(* as a record [num, den] and compared by cross-multiplication, so that a  *)
(* division is what the code divides by and not a rounded value.           *)
(* Category names are strings; a string is modelled as the sequence of its *)
(* character codes, so that sorted() really compares lexicographically.    *)
(***************************************************************************)
EXTENDS Integers, Sequences, FiniteSets, TLC

VARIABLES
    \* ---- main(): the driver's locals and the effects it has
    args, pc, error, num_tasks, dataset, split_sets, train_subsets, loaders,
    log_dir, fs_ops, writer, epoch, epoch_calls,
    train_acc, val_acc, test_acc,
    train_acc_list, val_acc_list, test_acc_list,
    \* ---- the models and the optimizer (shared by train() and eval())
    mode, opt_steps, batch_ops,
    \* ---- the running call of train() or eval(): its parameters and locals
    fn, loader, subsets, step, phase, subset_iterator, draws, reinits,
    pred_keys, pred, y, is_valid, loss_mat, loss,
    y_true, y_scores, roc_list, missing, ret

driverVars == <<args, pc, error, num_tasks, dataset, split_sets, train_subsets,
                loaders, log_dir, fs_ops, writer, epoch, epoch_calls,
                train_acc, val_acc, test_acc,
                train_acc_list, val_acc_list, test_acc_list>>
modelVars  == <<mode, opt_steps, batch_ops>>
iterVars   == <<subset_iterator, draws, reinits>>
lossVars   == <<pred_keys, pred, y, is_valid, loss_mat, loss>>
evalVars   == <<y_true, y_scores, roc_list, missing>>
callVars   == <<fn, loader, subsets, step, phase, ret>>
vars == <<driverVars, modelVars, iterVars, lossVars, evalVars, callVars>>

----------------------------------------------------------------------------
(* Bounds of the model *)

MaxEpochs  == 2   \* --epochs ranges over 0..MaxEpochs
MaxBatches == 2   \* a loader yields 1..MaxBatches batches
MaxK       == 2   \* a context-subset loader yields 1..MaxK batches
MaxSteps   == 5   \* batches of the loader of a single train() or eval() call
MaxRows    == 2   \* molecules of the batch when train() runs on any labels
MaxEvalRows == 3  \* molecules of the split when eval() runs on any labels

(* finetune.py:176-177, the clintox data set: two task columns.  The label  *)
(* matrices of the model have this width for every data set: num_tasks is  *)
(* handed to the model constructors (lines 210-211) and decides no branch  *)
(* of finetune.py.  There is one context-subset category per task column,  *)
(* as batch.y.view(pred.shape) (lines 52, 95) requires.                    *)
NumCols == 2

----------------------------------------------------------------------------
(* Sequences and quotients *)

None == "None"

\* how a call ends: with a value, or with an exception raised
Returned(v) == [exc |-> None, val |-> v]
Raised(e) == [exc |-> e, val |-> None]

RECURSIVE SumSeq(_)
SumSeq(s) == IF s = <<>> THEN 0 ELSE Head(s) + SumSeq(Tail(s))

RECURSIVE Flatten(_)
Flatten(m) == IF m = <<>> THEN <<>> ELSE Head(m) \o Flatten(Tail(m))

Rat(n, d) == [num |-> n, den |-> d]
RatEq(a, b) == a.num * b.den = b.num * a.den
RatAdd(a, b) == Rat(a.num * b.den + b.num * a.den, a.den * b.den)

RECURSIVE RatSum(_)
\* Python's sum() over a list of floats, starting from 0
RatSum(s) == IF s = <<>> THEN Rat(0, 1) ELSE RatAdd(Head(s), RatSum(Tail(s)))

Column(m, j) == [i \in 1..Len(m) |-> m[i][j]]
Count(s, v) == Cardinality({i \in 1..Len(s) : s[i] = v})

RECURSIVE SelectIdx(_, _)
\* numpy boolean-mask indexing a[mask]: the entries of a where mask is TRUE
SelectIdx(a, mask) ==
    IF a = <<>> THEN <<>>
    ELSE (IF Head(mask) THEN <<Head(a)>> ELSE <<>>) \o SelectIdx(Tail(a), Tail(mask))

----------------------------------------------------------------------------
(* train(), lines 52-62: the masked loss *)

Labels == {-1, 0, 1}
Logits == {-2, 0, 2}

\* log(1 + exp(-|x|)) in thousandths
Softplus(a) == IF a = 0 THEN 693 ELSE 127

\* nn.BCEWithLogitsLoss(reduction="none") of logit x against the target t2/2,
\* in thousandths: max(x,0) - x*t + log(1 + exp(-|x|))
Criterion(x, t2) ==
    (IF x > 0 THEN 1000 * x ELSE 0) - 500 * x * t2 + Softplus(IF x < 0 THEN -x ELSE x)

\* line 55: is_valid = y**2 > 0
IsValid(ym) ==
    [i \in 1..Len(ym) |-> [j \in 1..Len(ym[i]) |-> ym[i][j] * ym[i][j] > 0]]

\* line 57: criterion(pred.double(), (y+1)/2); the target is kept doubled, y+1
LossMat(p, ym) ==
    [i \in 1..Len(ym) |-> [j \in 1..Len(ym[i]) |-> Criterion(p[i][j], ym[i][j] + 1)]]

\* line 59: torch.where(is_valid, loss_mat, zeros)
MaskedLossMat(valid, lm) ==
    [i \in 1..Len(lm) |-> [j \in 1..Len(lm[i]) |-> IF valid[i][j] THEN lm[i][j] ELSE 0]]

\* the plausible slip: the plain mean, over every element
LossPlainMean(valid, lm) ==
    Rat(SumSeq(Flatten(lm)), Len(Flatten(lm)))

\* line 62: torch.sum(loss_mat)/torch.sum(is_valid); 0/0 is NaN
BatchLoss(valid, lm) ==
    Rat(SumSeq(Flatten(lm)), Count(Flatten(valid), TRUE))

----------------------------------------------------------------------------
(* eval(), lines 101-112: the masked mean AUC *)

\* sklearn.metrics.roc_auc_score on targets t2/2 (t2 = 2: positive, t2 = 0:
\* negative) and scores s: the share of (positive, negative) pairs that the
\* scores rank correctly, a tie counting one half.  Any other target value is
\* rejected (ValueError: continuous format is not supported).
roc_auc_score(t2, s) ==
    IF \E i \in 1..Len(t2) : t2[i] \notin {0, 2} THEN "ValueError"
    ELSE LET P == {i \in 1..Len(t2) : t2[i] = 2}
             N == {i \in 1..Len(t2) : t2[i] = 0}
             gt == Cardinality({q \in P \X N : s[q[1]] > s[q[2]]})
             eq == Cardinality({q \in P \X N : s[q[1]] = s[q[2]]})
         IN  Rat(2 * gt + eq, 2 * Cardinality(P) * Cardinality(N))

\* line 104: np.sum(y_true[:,i] == 1) > 0 and np.sum(y_true[:,i] == -1) > 0
HasBoth(col) == Count(col, 1) > 0 /\ Count(col, -1) > 0

\* lines 105-106: the AUC of task column i over the rows with a label
ColumnAuc(yt, ys, i) ==
    LET col   == Column(yt, i)
        valid == [r \in 1..Len(col) |-> col[r] * col[r] > 0]
        t2    == SelectIdx([r \in 1..Len(col) |-> col[r] + 1], valid)
    IN  roc_auc_score(t2, SelectIdx(Column(ys, i), valid))

RECURSIVE RocList(_, _, _)
\* lines 101-106: the loop over range(y_true.shape[1]), from column i on
RocList(yt, ys, i) ==
    IF i > Len(yt[1]) THEN <<>>
    ELSE (IF HasBoth(Column(yt, i)) THEN <<ColumnAuc(yt, ys, i)>> ELSE <<>>)
         \o RocList(yt, ys, i + 1)

\* lines 108-110: the diagnostic printed when a column was skipped
MissingRatio(rl, ncols) ==
    IF Len(rl) < ncols
    THEN [printed |-> TRUE, ratio |-> Rat(ncols - Len(rl), ncols)]
    ELSE [printed |-> FALSE, ratio |-> Rat(0, 1)]

\* the plausible slip, kept in the comment of line 112: divide by y_true.shape[1]
MeanOverAllTasks(rl, ncols) ==
    IF ncols = 0 THEN Raised("ZeroDivisionError")
    ELSE LET s == RatSum(rl) IN Returned(Rat(s.num, s.den * ncols))

\* the plausible slip: an empty list is guarded and counts as 0
MeanAucGuarded(rl, ncols) ==
    IF Len(rl) = 0 THEN Returned(Rat(0, 1))
    ELSE LET s == RatSum(rl) IN Returned(Rat(s.num, s.den * Len(rl)))

\* line 112: sum(roc_list)/len(roc_list)
MeanAuc(rl, ncols) ==
    IF Len(rl) = 0 THEN Raised("ZeroDivisionError")
    ELSE LET s == RatSum(rl) IN Returned(Rat(s.num, s.den * Len(rl)))

----------------------------------------------------------------------------
(* Dictionaries.  A Python dict keeps its insertion order: it is modelled  *)
(* as the sequence of its [key, val] entries in that order.                *)

Keys(d) == [i \in 1..Len(d) |-> d[i].key]
Get(d, k) == LET i == CHOOSE n \in 1..Len(d) : d[n].key = k IN d[i].val
Set(d, k, v) == [i \in 1..Len(d) |-> IF d[i].key = k THEN [key |-> k, val |-> v] ELSE d[i]]

RECURSIVE LexLess(_, _)
\* Python's str < str: lexicographic on the character codes
LexLess(a, b) ==
    IF a = <<>> THEN b # <<>>
    ELSE IF b = <<>> THEN FALSE
    ELSE IF Head(a) # Head(b) THEN Head(a) < Head(b)
    ELSE LexLess(Tail(a), Tail(b))

RECURSIVE Insert(_, _)
Insert(k, s) ==
    IF s = <<>> THEN <<k>>
    ELSE IF LexLess(k, Head(s)) THEN <<k>> \o s
    ELSE <<Head(s)>> \o Insert(k, Tail(s))

RECURSIVE SortKeys(_)
SortKeys(ks) == IF ks = <<>> THEN <<>> ELSE Insert(Head(ks), SortKeys(Tail(ks)))

\* the plausible slip: iterate the mapping as it is, in insertion order
UnsortedKeys(d) == Keys(d)

\* lines 41 and 84: sorted(subsets), sorted(subset_iterator)
Sorted(d) == SortKeys(Keys(d))

----------------------------------------------------------------------------
(* The models.  backbone_model, encoder_model and classifier are code of   *)
(* model.py; here they are fixed functions of their inputs and of the      *)
(* parameters, which are stood for by the number of optimizer steps taken. *)

Logit(n) == 2 * (n % 3) - 2

\* line 38 / 82: one global feature per molecule of the batch
Backbone(batch) == batch.x
\* line 47 / 90: the local feature of a context batch
Encoder(context) == Len(context.key) + context.key[1] + context.item
\* line 49 / 91: one column of predictions, one entry per molecule
Classifier(global_feature, local_feature, params) ==
    [i \in 1..Len(global_feature) |-> Logit(global_feature[i] + local_feature + params)]

\* lines 51 / 93: torch.cat(preds, dim=1)
CatColumns(cols) ==
    [i \in 1..Len(cols[1]) |-> [j \in 1..Len(cols) |-> cols[j][i]]]

\* line 98-99: torch.cat(list, dim=0)
CatRows(ms) == Flatten(ms)

----------------------------------------------------------------------------
(* Context-subset iterators, lines 42-46 and 85-89.  A subset loader that  *)
(* yields K batches has an iterator at position 0..K; next() yields batch  *)
(* pos+1 or raises StopIteration at pos = K.                               *)

\* the plausible slip: exhaustion is noticed one draw late
IterExhaustedLate(pos, K) == pos > K

IterExhausted(pos, K) == pos >= K

\* iter(subsets[key]): a fresh iterator
NewIter == 0

\* try: next() / except StopIteration: iter() again, next() again
Draw(it, subs, key) ==
    LET pos == Get(it, key)
        K   == Get(subs, key)
    IN  IF ~IterExhausted(pos, K)
        THEN [item |-> pos + 1, it |-> Set(it, key, pos + 1), reinit |-> FALSE, exc |-> None]
        ELSE IF ~IterExhausted(NewIter, K)
        THEN [item |-> NewIter + 1, it |-> Set(it, key, NewIter + 1), reinit |-> TRUE, exc |-> None]
        ELSE [item |-> 0, it |-> Set(it, key, NewIter), reinit |-> TRUE, exc |-> "StopIteration"]

RECURSIVE ForwardKeys(_, _, _, _, _)
\* the loop "for key in sorted(...)": the iterators after it, and per key
\* visited the drawn context and its prediction column
ForwardKeys(ks, it, subs, g, params) ==
    IF ks = <<>> THEN [it |-> it, cols |-> <<>>, exc |-> None]
    ELSE LET d == Draw(it, subs, Head(ks)) IN
         IF d.exc # None THEN [it |-> d.it, cols |-> <<>>, exc |-> d.exc]
         ELSE LET context == [key |-> Head(ks), item |-> d.item]
                  col  == [key |-> Head(ks), item |-> d.item, reinit |-> d.reinit,
                           pred |-> Classifier(g, Encoder(context), params)]
                  rest == ForwardKeys(Tail(ks), d.it, subs, g, params)
              IN  [it |-> rest.it, cols |-> <<col>> \o rest.cols, exc |-> rest.exc]

\* lines 32-34 / 74-76: one fresh iterator per key of subsets, in its order
FreshIterators(subs) == [i \in 1..Len(subs) |-> [key |-> subs[i].key, val |-> NewIter]]
EmptyLog(subs, v) == [i \in 1..Len(subs) |-> [key |-> subs[i].key, val |-> v]]

\* the draws of a forward pass added to the record of the call
LogDraws(dr, cols) ==
    [i \in 1..Len(dr) |->
        LET hit == {j \in 1..Len(cols) : cols[j].key = dr[i].key} IN
        IF hit = {} THEN dr[i]
        ELSE [key |-> dr[i].key, val |-> Append(dr[i].val, cols[CHOOSE j \in hit : TRUE].item)]]
LogReinits(ri, dr, cols) ==
    [i \in 1..Len(ri) |->
        LET hit == {j \in 1..Len(cols) : cols[j].key = ri[i].key /\ cols[j].reinit} IN
        IF hit = {} THEN ri[i]
        ELSE [key |-> ri[i].key, val |-> ri[i].val \cup {Len(dr[i].val) + 1}]]

----------------------------------------------------------------------------
(* train(), lines 28-65 *)

IdleCall ==
    /\ fn = None /\ loader = <<>> /\ subsets = <<>> /\ step = 0
    /\ phase = "idle" /\ ret = Returned(None)
    /\ subset_iterator = <<>> /\ draws = <<>> /\ reinits = <<>>
    /\ pred_keys = <<>> /\ pred = None /\ y = None
    /\ is_valid = None /\ loss_mat = None /\ loss = None
    /\ y_true = <<>> /\ y_scores = <<>> /\ roc_list = <<>>
    /\ missing = MissingRatio(<<>>, 0)

\* one step of the optimizer: optimizer.step()
OptimizerStepTwice(n) == n + 2
OptimizerStep(n) == n + 1

\* lines 29-34: the models go to training mode, one iterator per category
TrainEnter ==
    /\ fn = "train" /\ phase = "enter"
    /\ mode' = "train"
    /\ subset_iterator' = FreshIterators(subsets)
    /\ draws' = EmptyLog(subsets, <<>>)
    /\ reinits' = EmptyLog(subsets, {})
    /\ step' = 0 /\ phase' = "batch" /\ batch_ops' = <<>>
    /\ UNCHANGED <<driverVars, opt_steps, lossVars, evalVars, fn, loader, subsets, ret>>

\* lines 36-52: the next batch, the forward pass over every category in
\* sorted order, the prediction matrix and the labels viewed in its shape
TrainForward ==
    /\ fn = "train" /\ phase = "batch" /\ step < Len(loader)
    /\ LET batch == loader[step + 1]
           f == ForwardKeys(Sorted(subsets), subset_iterator, subsets,
                            Backbone(batch), opt_steps)
       IN  /\ subset_iterator' = f.it
           /\ draws' = LogDraws(draws, f.cols)
           /\ reinits' = LogReinits(reinits, draws, f.cols)
           /\ IF f.exc # None
              THEN /\ phase' = "raised" /\ ret' = Raised(f.exc)
                   /\ UNCHANGED <<pred_keys, pred, y, batch_ops>>
              ELSE /\ pred_keys' = [j \in 1..Len(f.cols) |-> f.cols[j].key]
                   /\ pred' = CatColumns([j \in 1..Len(f.cols) |-> f.cols[j].pred])
                   /\ y' = batch.y
                   /\ batch_ops' = <<"forward">>
                   /\ phase' = "mask" /\ UNCHANGED ret
    /\ UNCHANGED <<driverVars, mode, opt_steps, is_valid, loss_mat, loss, evalVars,
                   fn, loader, subsets, step>>

\* lines 55-59: the validity mask and the loss matrix, masked
TrainMask ==
    /\ fn = "train" /\ phase = "mask"
    /\ is_valid' = IsValid(y)
    /\ loss_mat' = MaskedLossMat(IsValid(y), LossMat(pred, y))
    /\ phase' = "zero_grad"
    /\ UNCHANGED <<driverVars, modelVars, iterVars, pred_keys, pred, y, loss, evalVars,
                   fn, loader, subsets, step, ret>>

\* line 61: optimizer.zero_grad()
TrainZeroGrad ==
    /\ fn = "train" /\ phase = "zero_grad"
    /\ batch_ops' = Append(batch_ops, "zero_grad")
    /\ phase' = "backward"
    /\ UNCHANGED <<driverVars, mode, opt_steps, iterVars, lossVars, evalVars,
                   fn, loader, subsets, step, ret>>

\* lines 62-63: the scalar loss and loss.backward()
TrainBackward ==
    /\ fn = "train" /\ phase = "backward"
    /\ loss' = BatchLoss(is_valid, loss_mat)
    /\ batch_ops' = Append(batch_ops, "backward")
    /\ phase' = "opt_step"
    /\ UNCHANGED <<driverVars, mode, opt_steps, iterVars, pred_keys, pred, y, is_valid,
                   loss_mat, evalVars, fn, loader, subsets, step, ret>>

\* line 65: optimizer.step(), and on to the next batch
TrainOptStep ==
    /\ fn = "train" /\ phase = "opt_step"
    /\ opt_steps' = OptimizerStep(opt_steps)
    /\ batch_ops' = Append(batch_ops, "step")
    /\ step' = step + 1
    /\ phase' = "batch"
    /\ UNCHANGED <<driverVars, mode, iterVars, lossVars, evalVars,
                   fn, loader, subsets, ret>>

\* the loader is exhausted: train() returns None
TrainReturn ==
    /\ fn = "train" /\ phase = "batch" /\ step = Len(loader)
    /\ ret' = Returned(None) /\ phase' = "returned"
    /\ UNCHANGED <<driverVars, modelVars, iterVars, lossVars, evalVars,
                   fn, loader, subsets, step>>

----------------------------------------------------------------------------
(* eval(), lines 68-112 *)

\* lines 69-76: the models go to evaluation mode, one iterator per category
EvalEnter ==
    /\ fn = "eval" /\ phase = "enter"
    /\ mode' = "eval"
    /\ y_true' = <<>> /\ y_scores' = <<>>
    /\ subset_iterator' = FreshIterators(subsets)
    /\ draws' = EmptyLog(subsets, <<>>)
    /\ reinits' = EmptyLog(subsets, {})
    /\ step' = 0 /\ phase' = "batch" /\ batch_ops' = <<>>
    /\ UNCHANGED <<driverVars, opt_steps, lossVars, roc_list, missing,
                   fn, loader, subsets, ret>>

\* lines 78-96: the next batch, the forward pass without gradients, and the
\* labels and predictions kept
EvalBatch ==
    /\ fn = "eval" /\ phase = "batch" /\ step < Len(loader)
    /\ LET batch == loader[step + 1]
           f == ForwardKeys(Sorted(subset_iterator), subset_iterator, subsets,
                            Backbone(batch), opt_steps)
       IN  /\ subset_iterator' = f.it
           /\ draws' = LogDraws(draws, f.cols)
           /\ reinits' = LogReinits(reinits, draws, f.cols)
           /\ IF f.exc # None
              THEN /\ phase' = "raised" /\ ret' = Raised(f.exc)
                   /\ UNCHANGED <<pred_keys, pred, batch_ops, y_true, y_scores, step>>
              ELSE LET p == CatColumns([j \in 1..Len(f.cols) |-> f.cols[j].pred]) IN
                   /\ pred_keys' = [j \in 1..Len(f.cols) |-> f.cols[j].key]
                   /\ pred' = p
                   /\ batch_ops' = <<"forward">>
                   /\ y_true' = Append(y_true, batch.y)
                   /\ y_scores' = Append(y_scores, p)
                   /\ step' = step + 1
                   /\ UNCHANGED <<phase, ret>>
    /\ UNCHANGED <<driverVars, mode, opt_steps, y, is_valid, loss_mat, loss,
                   roc_list, missing, fn, loader, subsets>>

\* lines 98-99: the kept batches concatenated into two matrices
EvalConcat ==
    /\ fn = "eval" /\ phase = "batch" /\ step = Len(loader)
    /\ y_true' = CatRows(y_true)
    /\ y_scores' = CatRows(y_scores)
    /\ phase' = "metric"
    /\ UNCHANGED <<driverVars, modelVars, iterVars, lossVars, roc_list, missing,
                   fn, loader, subsets, step, ret>>

\* lines 101-112: the AUC of every task column that has both classes, the
\* diagnostic, and the mean returned (or the division by zero raised)
EvalMetric ==
    /\ fn = "eval" /\ phase = "metric"
    /\ LET ncols == Len(y_true[1])
           rl == RocList(y_true, y_scores, 1)
           m  == MeanAuc(rl, ncols)
       IN  /\ roc_list' = rl
           /\ missing' = MissingRatio(rl, ncols)
           /\ ret' = m
           /\ phase' = IF m.exc # None THEN "raised" ELSE "returned"
    /\ UNCHANGED <<driverVars, modelVars, iterVars, lossVars, y_true, y_scores,
                   fn, loader, subsets, step>>

TrainStep ==
    \/ TrainEnter \/ TrainForward \/ TrainMask \/ TrainZeroGrad
    \/ TrainBackward \/ TrainOptStep \/ TrainReturn

EvalStep ==
    \/ EvalEnter \/ EvalBatch \/ EvalConcat \/ EvalMetric

----------------------------------------------------------------------------
(* The data.  A batch is [x, y]: one feature and one row of NumCols labels *)
(* per molecule.  A loader is the sequence of the batches it yields.       *)

\* category names: "10", "2" and "9" (lexicographic order is not numeric order)
Names == {<<49, 48>>, <<50>>, <<57>>}

Distinct(s) == \A i, j \in 1..Len(s) : i # j => s[i].key # s[j].key

\* the subsets mapping after lines 205-206: one loader per category, in any
\* insertion order; val is the number of batches the loader yields, at least
\* one (DataLoader(..., shuffle=True) is built over a subset that has members)
SubsetConfigs ==
    {s \in [1..NumCols -> [key : Names, val : 1..MaxK]] : Distinct(s)}

DataKinds == {"good", "partial", "degenerate", "null"}

\* the label rows of a batch: every column with both classes; the second
\* column without a negative; no column with both classes; no label at all
KindRows(kind) ==
    CASE kind = "good"       -> << <<1, -1>>, <<-1, 1>> >>
      [] kind = "partial"    -> << <<1, 0>>, <<-1, 1>> >>
      [] kind = "degenerate" -> << <<1, 1>>, <<0, 1>> >>
      [] kind = "null"       -> << <<0, 0>>, <<0, 0>> >>

Batch(kind, i) == [x |-> <<i % 3, (i + 1) % 3>>, y |-> KindRows(kind)]
LoaderOf(kind, n) == [i \in 1..n |-> Batch(kind, i)]

\* the features of r molecules: alternating, all equal, or of period three
Features(r) == {[i \in 1..r |-> i % 2], [i \in 1..r |-> 0], [i \in 1..r |-> i % 3]}

\* every batch of r molecules: any labels, and features of the set F
Batches(r, F) ==
    {[x |-> g, y |-> ym] : g \in F, ym \in [1..r -> [1..NumCols -> Labels]]}

FixedSubsets == << [key |-> <<57>>, val |-> 1], [key |-> <<49, 48>>, val |-> 2] >>

\* a local variable of main() before and after its assignment
Unbound == [bound |-> FALSE, val |-> None]
Bound(v) == [bound |-> TRUE, val |-> v]

----------------------------------------------------------------------------
(* A single call of train() or eval(), outside main() *)

NoDriver ==
    /\ args = None /\ pc = "call" /\ error = None /\ num_tasks = 0
    /\ dataset = None /\ split_sets = Unbound /\ train_subsets = Unbound
    /\ loaders = {} /\ log_dir = None /\ fs_ops = <<>> /\ writer = Unbound
    /\ epoch = 0 /\ epoch_calls = <<>>
    /\ train_acc = None /\ val_acc = None /\ test_acc = None
    /\ train_acc_list = <<>> /\ val_acc_list = <<>> /\ test_acc_list = <<>>

CallOf(f, l, subs) ==
    /\ fn = f /\ loader = l /\ subsets = subs /\ step = 0
    /\ phase = "enter" /\ ret = Returned(None)
    /\ subset_iterator = <<>> /\ draws = <<>> /\ reinits = <<>>
    /\ pred_keys = <<>> /\ pred = None /\ y = None
    /\ is_valid = None /\ loss_mat = None /\ loss = None
    /\ y_true = <<>> /\ y_scores = <<>> /\ roc_list = <<>>
    /\ missing = MissingRatio(<<>>, 0)
    /\ mode = None /\ opt_steps = 0 /\ batch_ops = <<>>

\* train() or eval() over a loader of 1..MaxSteps batches and any subsets
InitStep ==
    /\ NoDriver
    /\ \E f \in {"train", "eval"}, kind \in DataKinds, n \in 1..MaxSteps,
          subs \in SubsetConfigs : CallOf(f, LoaderOf(kind, n), subs)
NextStep == TrainStep \/ EvalStep
SpecStep == InitStep /\ [][NextStep]_vars

\* train() over one batch of any labels and features
InitLoss ==
    /\ NoDriver
    /\ \E r \in 1..MaxRows : \E b \in Batches(r, [1..r -> 0..2]) :
          CallOf("train", <<b>>, FixedSubsets)
SpecLoss == InitLoss /\ [][TrainStep]_vars

\* eval() over a split of one batch of any labels and features
InitMetric ==
    /\ NoDriver
    /\ \E r \in 1..MaxEvalRows : \E b \in Batches(r, Features(r)) :
          CallOf("eval", <<b>>, FixedSubsets)
SpecMetric == InitMetric /\ [][EvalStep]_vars

----------------------------------------------------------------------------
(* main(), lines 116-272 *)

SupportedDatasets ==
    {"tox21", "hiv", "pcba", "muv", "bace", "bbbp", "toxcast", "sider", "clintox"}
\* "esol" is a regression data set, which finetune.py does not know
DatasetArgs == SupportedDatasets \cup {"esol"}
SplitArgs == {"scaffold", "random", "random_scaffold", "stratified"}

\* the plausible slip: no else branch, an unknown name goes on with no tasks
NumTasksOfNoElse(name) ==
    CASE name = "tox21"   -> Returned(12)
      [] name = "hiv"     -> Returned(1)
      [] name = "pcba"    -> Returned(128)
      [] name = "muv"     -> Returned(17)
      [] name = "bace"    -> Returned(1)
      [] name = "bbbp"    -> Returned(1)
      [] name = "toxcast" -> Returned(617)
      [] name = "sider"   -> Returned(27)
      [] name = "clintox" -> Returned(2)
      [] OTHER            -> Returned(0)

\* lines 160-179: the task count of the data set, or ValueError
NumTasksOf(name) ==
    CASE name = "tox21"   -> Returned(12)
      [] name = "hiv"     -> Returned(1)
      [] name = "pcba"    -> Returned(128)
      [] name = "muv"     -> Returned(17)
      [] name = "bace"    -> Returned(1)
      [] name = "bbbp"    -> Returned(1)
      [] name = "toxcast" -> Returned(617)
      [] name = "sider"   -> Returned(27)
      [] name = "clintox" -> Returned(2)
      [] OTHER            -> Raised("ValueError: Invalid dataset name.")

\* the splits an evaluation loader is drawn from
EvalKinds == {"good", "partial", "degenerate"}

\* the subsets scaffold_split returns: one per task column, k batches each
SplitSubsets(k) == << [key |-> <<57>>, val |-> k], [key |-> <<49, 48>>, val |-> k] >>

Fail(e) == error' = e /\ pc' = "failed"

\* the call f(loader l, subsets subs) begins
Call(f, l, subs) ==
    /\ fn' = f /\ loader' = l /\ subsets' = subs /\ phase' = "enter"
    /\ step' = 0 /\ ret' = Returned(None)
    /\ subset_iterator' = <<>> /\ draws' = <<>> /\ reinits' = <<>>
    /\ pred_keys' = <<>> /\ pred' = None /\ y' = None
    /\ is_valid' = None /\ loss_mat' = None /\ loss' = None
    /\ y_true' = <<>> /\ y_scores' = <<>> /\ roc_list' = <<>>
    /\ missing' = MissingRatio(<<>>, 0)
    /\ batch_ops' = <<>>

callLocals == <<iterVars, lossVars, evalVars, callVars, batch_ops>>

\* the parsed arguments, and whether the log directory of the run is there
\* already (it is looked at only when --filename is not empty)
Init ==
    /\ args \in [dataset : DatasetArgs, split : SplitArgs, eval_train : {0, 1},
                 epochs : 0..MaxEpochs, filename : {"", "log"}]
    /\ log_dir \in {"absent", "exists"}
    /\ (args.filename = "" => log_dir = "absent")
    /\ pc = "resolve_dataset" /\ error = None /\ num_tasks = 0
    /\ dataset = None /\ split_sets = Unbound /\ train_subsets = Unbound
    /\ loaders = {} /\ fs_ops = <<>> /\ writer = Unbound
    /\ epoch = 0 /\ epoch_calls = <<>>
    /\ train_acc = None /\ val_acc = None /\ test_acc = None
    /\ train_acc_list = <<>> /\ val_acc_list = <<>> /\ test_acc_list = <<>>
    /\ mode = None /\ opt_steps = 0 /\ batch_ops = <<>>
    /\ IdleCall

\* lines 160-179
ResolveDataset ==
    /\ pc = "resolve_dataset"
    /\ LET r == NumTasksOf(args.dataset) IN
       IF r.exc # None
       THEN Fail(r.exc) /\ UNCHANGED num_tasks
       ELSE num_tasks' = r.val /\ pc' = "load_dataset" /\ UNCHANGED error
    /\ UNCHANGED <<args, dataset, split_sets, train_subsets, loaders, log_dir, fs_ops,
                   writer, epoch, epoch_calls, train_acc, val_acc, test_acc,
                   train_acc_list, val_acc_list, test_acc_list, modelVars,
                   iterVars, lossVars, evalVars, callVars>>

\* lines 182-184: MoleculeDataset(...)
LoadDataset ==
    /\ pc = "load_dataset"
    /\ dataset' = args.dataset
    /\ pc' = "split"
    /\ UNCHANGED <<args, error, num_tasks, split_sets, train_subsets, loaders, log_dir,
                   fs_ops, writer, epoch, epoch_calls, train_acc, val_acc, test_acc,
                   train_acc_list, val_acc_list, test_acc_list, modelVars,
                   iterVars, lossVars, evalVars, callVars>>

\* the plausible slip: the split name is checked only after the loaders
KnownSplitUnchecked(split) == TRUE

\* lines 186, 190, 193, 197: the split names main() knows
KnownSplit(split) == split \in {"scaffold", "random", "random_scaffold"}

\* the split names that bind train_subsets: line 188 alone does
BindsSubsets(split) == split = "scaffold"

\* lines 186-198: the three data sets of the split, by its name; the data
\* are whatever the files hold
SplitDataset ==
    /\ pc = "split"
    /\ IF KnownSplit(args.split)
       THEN /\ \E b \in 1..MaxBatches, vk \in EvalKinds, tk \in EvalKinds, k \in 1..MaxK :
                 /\ split_sets' = Bound([train |-> LoaderOf("partial", b),
                                         valid |-> LoaderOf(vk, 1),
                                         test  |-> LoaderOf(tk, 1)])
                 /\ train_subsets' = IF BindsSubsets(args.split)
                                     THEN Bound(SplitSubsets(k)) ELSE train_subsets
            /\ pc' = "loaders" /\ UNCHANGED error
       ELSE /\ Fail("ValueError: Invalid split option.")
            /\ UNCHANGED <<split_sets, train_subsets>>
    /\ UNCHANGED <<args, num_tasks, dataset, loaders, log_dir, fs_ops,
                   writer, epoch, epoch_calls, train_acc, val_acc, test_acc,
                   train_acc_list, val_acc_list, test_acc_list, modelVars,
                   iterVars, lossVars, evalVars, callVars>>

\* lines 200-204: the three DataLoaders
BuildLoaders ==
    /\ pc = "loaders"
    /\ loaders' = {"train", "val", "test"}
    /\ pc' = "subset_loaders"
    /\ UNCHANGED <<args, error, num_tasks, dataset, split_sets, train_subsets, log_dir,
                   fs_ops, writer, epoch, epoch_calls, train_acc, val_acc, test_acc,
                   train_acc_list, val_acc_list, test_acc_list, modelVars,
                   iterVars, lossVars, evalVars, callVars>>

\* lines 205-206: one DataLoader per context subset; train_subsets is read
BuildSubsetLoaders ==
    /\ pc = "subset_loaders"
    /\ IF train_subsets.bound
       THEN loaders' = loaders \cup {"subsets"} /\ pc' = "setup_model" /\ UNCHANGED error
       ELSE Fail("UnboundLocalError: train_subsets") /\ UNCHANGED loaders
    /\ UNCHANGED <<args, num_tasks, dataset, split_sets, train_subsets, log_dir,
                   fs_ops, writer, epoch, epoch_calls, train_acc, val_acc, test_acc,
                   train_acc_list, val_acc_list, test_acc_list, modelVars,
                   iterVars, lossVars, evalVars, callVars>>

\* lines 208-233: the three models, the optimizer and the empty lists
SetupModel ==
    /\ pc = "setup_model"
    /\ opt_steps' = 0
    /\ train_acc_list' = <<>> /\ val_acc_list' = <<>> /\ test_acc_list' = <<>>
    /\ pc' = "setup_writer"
    /\ UNCHANGED <<args, error, num_tasks, dataset, split_sets, train_subsets, loaders,
                   log_dir, fs_ops, writer, epoch, epoch_calls, train_acc, val_acc,
                   test_acc, mode, batch_ops, iterVars, lossVars, evalVars, callVars>>

\* lines 236-242: the log directory is removed if there is one, and made anew
SetupWriter ==
    /\ pc = "setup_writer"
    /\ IF args.filename # ""
       THEN /\ fs_ops' = (IF log_dir = "exists" THEN <<"rmtree">> ELSE <<>>)
                         \o <<"SummaryWriter">>
            /\ log_dir' = "exists"
            /\ writer' = Bound([closed |-> FALSE, scalars |-> <<>>])
       ELSE UNCHANGED <<fs_ops, log_dir, writer>>
    /\ pc' = "epoch"
    /\ UNCHANGED <<args, error, num_tasks, dataset, split_sets, train_subsets, loaders,
                   epoch, epoch_calls, train_acc, val_acc, test_acc,
                   train_acc_list, val_acc_list, test_acc_list, modelVars,
                   iterVars, lossVars, evalVars, callVars>>

\* a scalar of the log: writer.add_scalar(tag, value, epoch)
Scalar(tag, value, e) == [tag |-> tag, value |-> value, epoch |-> e]

\* lines 244-247: the next epoch begins with train()
EpochTrain ==
    /\ pc = "epoch" /\ epoch < args.epochs
    /\ epoch' = epoch + 1
    /\ epoch_calls' = <<"train">>
    /\ Call("train", split_sets.val.train, train_subsets.val)
    /\ pc' = "in_train"
    /\ UNCHANGED <<args, error, num_tasks, dataset, split_sets, train_subsets, loaders,
                   log_dir, fs_ops, writer, train_acc, val_acc, test_acc,
                   train_acc_list, val_acc_list, test_acc_list, mode, opt_steps>>

\* lines 249-255: after train(), the evaluation on the training set (line 251
\* calls eval() with five of its seven arguments) or the constant 0, and then
\* eval() on the validation set
EvalTrainThenVal ==
    /\ pc = "in_train" /\ phase = "returned"
    /\ IF args.eval_train # 0
       THEN /\ Fail("TypeError: eval() missing 2 required positional arguments")
            /\ epoch_calls' = Append(epoch_calls, "eval_train")
            /\ UNCHANGED <<train_acc, callLocals>>
       ELSE /\ train_acc' = Rat(0, 1)
            /\ epoch_calls' = Append(epoch_calls, "eval_val")
            /\ Call("eval", split_sets.val.valid, train_subsets.val)
            /\ pc' = "in_eval_val" /\ UNCHANGED error
    /\ UNCHANGED <<args, num_tasks, dataset, split_sets, train_subsets, loaders,
                   log_dir, fs_ops, writer, epoch, val_acc, test_acc,
                   train_acc_list, val_acc_list, test_acc_list, mode, opt_steps>>

\* lines 255-256: the validation metric is kept, eval() on the test set
EvalTest ==
    /\ pc = "in_eval_val" /\ phase = "returned"
    /\ val_acc' = ret.val
    /\ epoch_calls' = Append(epoch_calls, "eval_test")
    /\ Call("eval", split_sets.val.test, train_subsets.val)
    /\ pc' = "in_eval_test"
    /\ UNCHANGED <<args, error, num_tasks, dataset, split_sets, train_subsets, loaders,
                   log_dir, fs_ops, writer, epoch, train_acc, test_acc,
                   train_acc_list, val_acc_list, test_acc_list, mode, opt_steps>>

\* lines 256-269: the test metric is kept, the three metrics are appended to
\* their lists and written to the log
RecordEpoch ==
    /\ pc = "in_eval_test" /\ phase = "returned"
    /\ test_acc' = ret.val
    /\ val_acc_list' = Append(val_acc_list, val_acc)
    /\ test_acc_list' = Append(test_acc_list, ret.val)
    /\ train_acc_list' = Append(train_acc_list, train_acc)
    /\ writer' = IF args.filename # ""
                 THEN Bound([closed |-> FALSE,
                             scalars |-> writer.val.scalars \o
                                 << Scalar("data/train auc", train_acc, epoch),
                                    Scalar("data/val auc", val_acc, epoch),
                                    Scalar("data/test auc", ret.val, epoch) >>])
                 ELSE writer
    /\ pc' = "epoch"
    /\ UNCHANGED <<args, error, num_tasks, dataset, split_sets, train_subsets, loaders,
                   log_dir, fs_ops, epoch, epoch_calls, train_acc, val_acc,
                   modelVars, callLocals>>

\* an exception raised inside train() or eval() is not caught by main()
Propagate ==
    /\ pc \in {"in_train", "in_eval_val", "in_eval_test"} /\ phase = "raised"
    /\ Fail(ret.exc)
    /\ UNCHANGED <<args, num_tasks, dataset, split_sets, train_subsets, loaders,
                   log_dir, fs_ops, writer, epoch, epoch_calls, train_acc, val_acc,
                   test_acc, train_acc_list, val_acc_list, test_acc_list,
                   modelVars, callLocals>>

\* lines 271-272: after the last epoch the log is closed and main() returns
Close ==
    /\ pc = "epoch" /\ epoch >= args.epochs
    /\ writer' = IF args.filename # ""
                 THEN Bound([closed |-> TRUE, scalars |-> writer.val.scalars])
                 ELSE writer
    /\ pc' = "done"
    /\ UNCHANGED <<args, error, num_tasks, dataset, split_sets, train_subsets, loaders,
                   log_dir, fs_ops, epoch, epoch_calls, train_acc, val_acc, test_acc,
                   train_acc_list, val_acc_list, test_acc_list, modelVars, callLocals>>

Next ==
    \/ ResolveDataset \/ LoadDataset \/ SplitDataset \/ BuildLoaders
    \/ BuildSubsetLoaders \/ SetupModel \/ SetupWriter
    \/ EpochTrain \/ EvalTrainThenVal \/ EvalTest \/ RecordEpoch
    \/ Propagate \/ Close
    \/ TrainStep \/ EvalStep

Spec == Init /\ [][Next]_vars

----------------------------------------------------------------------------
(* What the claims speak of *)

ValidSplits == {"scaffold", "random", "random_scaffold"}
InvalidDataset == "ValueError: Invalid dataset name."
InvalidSplit == "ValueError: Invalid split option."
ZeroDivision == "ZeroDivisionError"

\* nothing of the run after the configuration has happened
NothingBuilt ==
    /\ loaders = {} /\ fs_ops = <<>> /\ ~writer.bound
    /\ epoch = 0 /\ opt_steps = 0 /\ fn = None /\ mode = None

\* the labels of a whole loader, and whether some task column of them has
\* both classes
LabelsOf(l) == Flatten([i \in 1..Len(l) |-> l[i].y])
ColumnsWithBoth(m) ==
    {j \in 1..NumCols : /\ \E r \in 1..Len(m) : m[r][j] = 1
                        /\ \E r \in 1..Len(m) : m[r][j] = -1}
Degenerate(l) == ColumnsWithBoth(LabelsOf(l)) = {}
NonDegenerateData ==
    split_sets.bound =>
        ~Degenerate(split_sets.val.valid) /\ ~Degenerate(split_sets.val.test)

IsPrefix(s, t) == Len(s) <= Len(t) /\ \A i \in 1..Len(s) : s[i] = t[i]

RECURSIVE SumOver(_, _)
\* the sum of the thousandths f[q] over the positions q of the set S
SumOver(S, f) ==
    IF S = {} THEN 0
    ELSE LET q == CHOOSE q \in S : TRUE IN f[q] + SumOver(S \ {q}, f)

----------------------------------------------------------------------------
\* C1: for every supported data set and each of the three split names, with
\* eval_train unset and non-degenerate data, main() raises no error: it
\* builds the loaders of the three splits and of the context subsets, runs
\* exactly args.epochs epochs and returns.
C1_MainCompletes ==
    (/\ args.dataset \in SupportedDatasets /\ args.split \in ValidSplits
     /\ args.eval_train = 0 /\ NonDegenerateData)
    => /\ pc # "failed" /\ error = None
       /\ pc = "done" => /\ loaders = {"train", "val", "test", "subsets"}
                         /\ epoch = args.epochs
                         /\ Len(val_acc_list) = args.epochs

\* C2: in every epoch train() runs first, then the evaluations in the order
\* train (only with eval_train), validation, test; every evaluation that is
\* run returns a scalar (on non-degenerate data), and after epoch e each of
\* the three lists has e entries; with eval_train set as well as unset.
C2_EpochOrder ==
    /\ IsPrefix(epoch_calls,
                IF args.eval_train # 0
                THEN <<"train", "eval_train", "eval_val", "eval_test">>
                ELSE <<"train", "eval_val", "eval_test">>)
    /\ NonDegenerateData =>
          ~(pc = "failed" /\ epoch > 0)
    /\ pc \in {"epoch", "done"} =>
          /\ Len(train_acc_list) = epoch
          /\ Len(val_acc_list) = epoch
          /\ Len(test_acc_list) = epoch
    /\ (pc = "done" /\ args.epochs > 0) =>
          epoch_calls = IF args.eval_train # 0
                        THEN <<"train", "eval_train", "eval_val", "eval_test">>
                        ELSE <<"train", "eval_val", "eval_test">>

\* C3: each of the nine supported names resolves to its task count, and for
\* every other name the run fails with the invalid-dataset error before any
\* data loading, split, loader, log directory action or training step.
C3_DatasetResolution ==
    /\ (pc \notin {"resolve_dataset", "failed"} \/ (pc = "failed" /\ error # InvalidDataset))
       => /\ args.dataset = "tox21"   => num_tasks = 12
          /\ args.dataset = "hiv"     => num_tasks = 1
          /\ args.dataset = "pcba"    => num_tasks = 128
          /\ args.dataset = "muv"     => num_tasks = 17
          /\ args.dataset = "bace"    => num_tasks = 1
          /\ args.dataset = "bbbp"    => num_tasks = 1
          /\ args.dataset = "toxcast" => num_tasks = 617
          /\ args.dataset = "sider"   => num_tasks = 27
          /\ args.dataset = "clintox" => num_tasks = 2
          /\ args.dataset \in SupportedDatasets
    /\ args.dataset \notin SupportedDatasets
       => /\ pc \in {"resolve_dataset", "failed"}
          /\ pc = "failed" => error = InvalidDataset
          /\ dataset = None /\ ~split_sets.bound /\ ~train_subsets.bound
          /\ NothingBuilt

C3_Witness ==
    /\ args.dataset = "esol" /\ pc = "failed" /\ error = InvalidDataset

\* C4: for every split name other than scaffold, random and random_scaffold
\* the run fails with the invalid-split error (once the data set name has
\* resolved: that check comes first) before any loader is built, before the
\* log directory is removed or made and before any training step; no epoch
\* is started.
C4_InvalidSplit ==
    args.split \notin ValidSplits
    => /\ pc \in {"resolve_dataset", "load_dataset", "split", "failed"}
       /\ (pc = "failed" /\ args.dataset \in SupportedDatasets) => error = InvalidSplit
       /\ pc = "failed" => error \in {InvalidSplit, InvalidDataset}
       /\ ~split_sets.bound /\ ~train_subsets.bound
       /\ NothingBuilt

C4_Witness ==
    /\ args.split = "stratified" /\ pc = "failed" /\ error = InvalidSplit
    /\ dataset = "bace" /\ args.filename = "log" /\ log_dir = "exists"

----------------------------------------------------------------------------
\* the forward passes the running call has made
ForwardsDone ==
    IF fn = "train" /\ phase \in {"mask", "zero_grad", "backward", "opt_step"}
    THEN step + 1 ELSE step
\* the call has left its loop over the loader
LoopOver == phase \in {"returned", "metric"} \/ (fn = "eval" /\ phase = "raised")

\* C5: in train() and eval(), a category whose subset loader yields K >= 1
\* batches gives one context per forward pass, N of them over a loader of N
\* batches; the iterator is made anew exactly at the draws K+1, 2K+1, ...;
\* the draws go round the loader's K batches; StopIteration never leaves
\* the call.
C5_CyclicDraws ==
    fn \in {"train", "eval"} /\ phase # "enter"
    => /\ \A i \in 1..Len(subsets) :
             LET K == subsets[i].val
                 d == Get(draws, subsets[i].key)
             IN  /\ Len(d) = ForwardsDone
                 /\ LoopOver => Len(d) = Len(loader)
                 /\ Get(reinits, subsets[i].key)
                       = {n \in 1..Len(d) : n > 1 /\ (n - 1) % K = 0}
                 /\ \A n \in 1..Len(d) : d[n] = ((n - 1) % K) + 1
       /\ ret.exc # "StopIteration"
       /\ (fn = "train" => phase # "raised")

C5_Witness ==
    /\ fn = "train" /\ phase = "returned" /\ Len(loader) = 5
    /\ \E i \in 1..Len(subsets) :
          /\ subsets[i].val = 2
          /\ Len(Get(draws, subsets[i].key)) = 5
          /\ Get(reinits, subsets[i].key) = {3, 5}

\* the lexicographic rank of the category names "10" < "2" < "9"
NameRank(k) == CASE k = <<49, 48>> -> 1 [] k = <<50>> -> 2 [] k = <<57>> -> 3

\* C6: in train() and eval() the prediction matrix of every batch has one
\* column per category, column i being the prediction for the i-th category
\* name in lexicographic order, whatever the insertion order of subsets: the
\* column order is a function of the set of names alone.
C6_ColumnOrder ==
    (fn \in {"train", "eval"} /\ ForwardsDone > 0)
    => /\ Len(pred_keys) = Len(subsets)
       /\ \A r \in 1..Len(pred) : Len(pred[r]) = Len(subsets)
       /\ {pred_keys[i] : i \in 1..Len(pred_keys)} = {subsets[i].key : i \in 1..Len(subsets)}
       /\ \A i, j \in 1..Len(pred_keys) :
             i < j => NameRank(pred_keys[i]) < NameRank(pred_keys[j])

C6_Witness ==
    /\ fn = "eval" /\ ForwardsDone = 2
    /\ Keys(subsets) = << <<57>>, <<49, 48>> >>
    /\ pred_keys = << <<49, 48>>, <<57>> >>

----------------------------------------------------------------------------
Positions(m) == {q \in (1..Len(m)) \X (1..NumCols) : TRUE}
ValidPositions(m) == {q \in Positions(m) : m[q[1]][q[2]] # 0}
RawLoss == [q \in Positions(y) |-> Criterion(pred[q[1]][q[2]], y[q[1]][q[2]] + 1)]

MaskDone == fn = "train" /\ (phase \in {"zero_grad", "backward", "opt_step"} \/ step > 0)
LossDone == fn = "train" /\ (phase = "opt_step" \/ step > 0)

\* C7: in train(), for every label matrix over {-1, 0, +1}: the validity
\* mask is (label # 0) elementwise; a masked-out position holds exactly 0
\* in the masked loss matrix; the batch loss is the sum of the per-element
\* losses at the valid positions divided by the number of valid positions,
\* not by the number of elements; on an all-valid matrix it is the plain
\* mean of the per-element losses.
C7_MaskedLoss ==
    /\ MaskDone =>
          \A q \in Positions(y) :
             /\ is_valid[q[1]][q[2]] = (y[q[1]][q[2]] # 0)
             /\ loss_mat[q[1]][q[2]] = IF y[q[1]][q[2]] # 0 THEN RawLoss[q] ELSE 0
    /\ LossDone =>
          /\ loss.num = SumOver(ValidPositions(y), RawLoss)
          /\ loss.den = Cardinality(ValidPositions(y))
          /\ ValidPositions(y) = Positions(y) =>
                /\ loss.num = SumOver(Positions(y), RawLoss)
                /\ loss.den = Len(y) * NumCols

C7_Witness ==
    /\ LossDone /\ phase = "returned"
    /\ y = << <<1, 0>>, <<-1, 1>> >>
    /\ loss.den = 3 /\ loss.num > 0

----------------------------------------------------------------------------
\* the AUC of task column j, from the pairs of a row labelled +1 and a row
\* labelled -1: the share of the pairs the scores order rightly, a tie for half
PairAuc(j) ==
    LET pairs == {q \in (1..Len(y_true)) \X (1..Len(y_true)) :
                     y_true[q[1]][j] = 1 /\ y_true[q[2]][j] = -1}
        gt == Cardinality({q \in pairs : y_scores[q[1]][j] > y_scores[q[2]][j]})
        eq == Cardinality({q \in pairs : y_scores[q[1]][j] = y_scores[q[2]][j]})
    IN  Rat(2 * gt + eq, 2 * Cardinality(pairs))

RECURSIVE SumAuc(_)
SumAuc(J) ==
    IF J = {} THEN Rat(0, 1)
    ELSE LET j == CHOOSE j \in J : TRUE IN RatAdd(PairAuc(j), SumAuc(J \ {j}))

MetricDone == fn = "eval" /\ phase \in {"returned", "raised"}

\* C8: in eval(), a task column contributes an AUC if and only if both +1
\* and -1 occur in it; its AUC is over the rows with a non-zero label; the
\* metric returned is the mean over the columns computed (divided by their
\* number, not by the number of tasks); the missing ratio is reported if and
\* only if a column was skipped, as 1 - computed/total, and is no error.
C8_MaskedMeanAuc ==
    MetricDone =>
       LET J == ColumnsWithBoth(y_true)
           n == Cardinality(J)
       IN  /\ Len(roc_list) = n
           /\ \A j \in J :
                 RatEq(roc_list[Cardinality({i \in J : i <= j})], PairAuc(j))
           /\ n > 0 => /\ phase = "returned" /\ ret.exc = None
                       /\ RatEq(ret.val, Rat(SumAuc(J).num, SumAuc(J).den * n))
           /\ missing.printed = (n < NumCols)
           /\ missing.printed => RatEq(missing.ratio, Rat(NumCols - n, NumCols))

C8_Witness ==
    /\ MetricDone /\ phase = "returned"
    /\ y_true = << <<1, 1>>, <<0, 1>>, <<-1, 0>> >>
    /\ Len(roc_list) = 1 /\ missing.printed
    /\ missing.ratio = Rat(1, 2)

----------------------------------------------------------------------------
TrainBatches == Len(split_sets.val.train)

\* C9: parameters are updated in train() alone, once per training batch, in
\* the order forward pass, zero_grad, backward, optimizer step; eval() does
\* none of the three; after e completed epochs over a training loader of B
\* batches exactly e*B optimizer steps have been taken.
C9_OneStepPerBatch ==
    /\ fn = "train" => IsPrefix(batch_ops, <<"forward", "zero_grad", "backward", "step">>)
    /\ fn = "eval" => IsPrefix(batch_ops, <<"forward">>)
    /\ pc = "in_train" => opt_steps = (epoch - 1) * TrainBatches + step
    /\ pc \in {"in_eval_val", "in_eval_test"} => opt_steps = epoch * TrainBatches
    /\ (pc \in {"epoch", "done"} /\ split_sets.bound) =>
          /\ opt_steps = epoch * TrainBatches
          /\ Len(val_acc_list) = epoch

C9_Witness ==
    /\ pc = "done" /\ epoch = 2 /\ TrainBatches = 2 /\ opt_steps = 4
    /\ batch_ops = <<"forward">> /\ fn = "eval"

\* C10: if no task column of an evaluation split has both +1 and -1, eval()
\* returns no scalar: the mean divides by zero, the error leaves main(), and
\* no metric of that epoch is appended to a list or written to the log.
C10_DegenerateSplit ==
    /\ (fn = "eval" /\ phase \in {"returned", "raised"}) =>
          IF Degenerate(loader)
          THEN phase = "raised" /\ ret.exc = ZeroDivision
          ELSE phase = "returned" /\ ret.exc = None
    /\ (split_sets.bound /\ (Degenerate(split_sets.val.valid) \/ Degenerate(split_sets.val.test)))
       => /\ pc \notin {"epoch", "done"} \/ epoch = 0
          /\ train_acc_list = <<>> /\ val_acc_list = <<>> /\ test_acc_list = <<>>
          /\ writer.bound => writer.val.scalars = <<>>
          /\ (pc = "failed" /\ epoch > 0 /\ args.eval_train = 0) => error = ZeroDivision

C10_Witness ==
    /\ pc = "failed" /\ error = ZeroDivision /\ epoch = 1
    /\ ~Degenerate(split_sets.val.valid) /\ Degenerate(split_sets.val.test)
    /\ writer.bound /\ writer.val.scalars = <<>> /\ val_acc_list = <<>>

====
